---------------------------- MODULE Spec2Model ----------------------------
(***************************************************************************)
(* A model of global_engine_titan.py: the commission function, the asset   *)
(* ranker and the day-by-day backtest loop.                                *)
(*                                                                         *)
(* Numbers.  The program computes in floating point; the model computes    *)
(* the same expressions exactly.  Prices are whole dollars, 0 standing for *)
(* a missing price (NaN).  Cash and commissions are counted in units of    *)
(* 1/UNITS_PER_DOLLAR dollar, the unit in which COMMISSION_RATE times a    *)
(* whole-dollar trade value is a whole number.  Scores and weights are     *)
(* fractions <<numerator, denominator>> in lowest terms.                   *)
(*                                                                         *)
(* Scale.  LOOKBACK_MOM (90 in the source), LOOKBACK_VOL (30) and TOP_N    *)
(* (25) are scaled down so that the state space is finite and small; the   *)
(* universe is cut to five tickers of four categories.  LOOKBACK_VOL is    *)
(* 2 because the sample standard deviation of two returns a, b is          *)
(* |a - b| / sqrt(2): the irrational factor is then the same for every     *)
(* ticker and cancels in every comparison and every weight.                *)
(***************************************************************************)
EXTENDS Integers, Sequences, FiniteSets, TLC

(***************************************************************************)
(* CONFIGURATION (source lines 29-40)                                      *)
(***************************************************************************)
INITIAL_CAPITAL == 100000
LOOKBACK_MOM == 3
LOOKBACK_VOL == 2
TOP_N == 3
\* MAX_SECTOR_WEIGHT = 0.35, STOP_LOSS_PCT = -0.07: in hundredths
MAX_SECTOR_WEIGHT == 35
STOP_LOSS_PCT == -7
\* REBALANCE_DAY = "Friday"; pandas dayofweek 4, Monday being 0
REBALANCE_DAY == 4
\* COMMISSION_RATE = 0.0005, MAX_COMMISSION_PCT = 0.005: in ten-thousandths
COMMISSION_RATE == 5
MAX_COMMISSION_PCT == 50
\* MIN_COMMISSION = 1.00 dollar
MIN_COMMISSION == 1

\* the money unit: 1/2000 dollar, so that 0.0005 dollar is one unit
UNITS_PER_DOLLAR == 10000 \div COMMISSION_RATE

\* a missing price
NaN == 0

(***************************************************************************)
(* Bounds of the model                                                     *)
(***************************************************************************)
\* simulated dates in one run
MaxDays == 2
\* |trade value| in dollars given to calc_commission on its own
MaxTradeValue == 2100

(***************************************************************************)
(* Exact arithmetic                                                        *)
(***************************************************************************)
Abs(x) == IF x < 0 THEN -x ELSE x
Max(a, b) == IF a >= b THEN a ELSE b
Min(a, b) == IF a <= b THEN a ELSE b

RECURSIVE Gcd(_, _)
Gcd(a, b) == IF b = 0 THEN a ELSE Gcd(b, a % b)

\* the fraction n/d (d # 0) in lowest terms with a positive denominator
Frac(n, d) ==
    LET g == Gcd(Abs(n), Abs(d))
        s == IF d < 0 THEN -1 ELSE 1
    IN  <<s * (n \div g), s * (d \div g)>>

FracAdd(x, y) == Frac(x[1] * y[2] + y[1] * x[2], x[2] * y[2])
FracSub(x, y) == Frac(x[1] * y[2] - y[1] * x[2], x[2] * y[2])
FracDiv(x, y) == Frac(x[1] * y[2], x[2] * y[1])
FracAbs(x) == <<Abs(x[1]), x[2]>>
FracLess(x, y) == x[1] * y[2] < y[1] * x[2]

\* <<floor(e * x / y), (e * x) mod y>> for e >= 0, 0 <= x <= y, without
\* forming e * x
RECURSIVE MulDivMod(_, _, _)
MulDivMod(e, x, y) ==
    IF e = 0 THEN <<0, 0>>
    ELSE LET h == MulDivMod(e \div 2, x, y)
             r == 2 * h[2] + (e % 2) * x
         IN  <<2 * h[1] + (r \div y), r % y>>

RECURSIVE Tabulate(_, _)
\* the function f on S, every value worked out once
Tabulate(S, f) ==
    IF S = {} THEN <<>>
    ELSE LET t == CHOOSE u \in S : TRUE
         IN  (t :> f[t]) @@ Tabulate(S \ {t}, f)

RECURSIVE SumOver(_, _)
\* the sum of f[t] over t in S
SumOver(S, f) ==
    IF S = {} THEN 0
    ELSE LET t == CHOOSE u \in S : TRUE
         IN  f[t] + SumOver(S \ {t}, f)

(***************************************************************************)
(* HELPER FUNCTIONS: calc_commission                                       *)
(***************************************************************************)
\* calc_commission with the floor applied after the cap
calc_commission_floor_last(trade_value) ==
    LET comm1 == Abs(trade_value) * ((UNITS_PER_DOLLAR * COMMISSION_RATE) \div 10000)
        comm2 == Min(comm1, Abs(trade_value) * ((UNITS_PER_DOLLAR * MAX_COMMISSION_PCT) \div 10000))
    IN  Max(comm2, MIN_COMMISSION * UNITS_PER_DOLLAR)

\* calc_commission without the cap
calc_commission_no_cap(trade_value) ==
    Max(Abs(trade_value) * ((UNITS_PER_DOLLAR * COMMISSION_RATE) \div 10000),
        MIN_COMMISSION * UNITS_PER_DOLLAR)

\* trade_value in whole dollars; the commission in money units
calc_commission(trade_value) ==
    LET comm1 == Abs(trade_value) * ((UNITS_PER_DOLLAR * COMMISSION_RATE) \div 10000)
        comm2 == Max(comm1, MIN_COMMISSION * UNITS_PER_DOLLAR)
        comm3 == Min(comm2, Abs(trade_value) * ((UNITS_PER_DOLLAR * MAX_COMMISSION_PCT) \div 10000))
    IN  comm3

(***************************************************************************)
(* ASSET UNIVERSE, cut to five tickers of four of the seven categories     *)
(***************************************************************************)
CATEGORY_LIST ==
    {"Aggressive Growth", "Defense / Low Vol", "Commodities", "REITs",
     "Global / Thematic", "Bonds / Hedges", "Crypto"}

TICKER_TO_CATEGORY ==
    [t \in {"TSLA", "NVDA", "JNJ", "DBC", "VNQ"} |->
        CASE t \in {"TSLA", "NVDA"} -> "Aggressive Growth"
          [] t = "JNJ" -> "Defense / Low Vol"
          [] t = "DBC" -> "Commodities"
          [] t = "VNQ" -> "REITs"]

\* TICKER_TO_CATEGORY.get(ticker, "Unknown")
CategoryOf(ticker) ==
    IF ticker \in DOMAIN TICKER_TO_CATEGORY THEN TICKER_TO_CATEGORY[ticker]
    ELSE "Unknown"

(***************************************************************************)
(* HELPER FUNCTIONS: rank_assets                                           *)
(*                                                                         *)
(* A price table is a sequence of rows, a row a function from the table's  *)
(* columns (tickers) to prices.  Row numbers count from 1, the source's    *)
(* iloc positions from 0.                                                  *)
(***************************************************************************)
Columns(prices_df) == DOMAIN prices_df[1]

\* DataFrame.pct_change fills a missing price with the last price before it
\* in the frame (fill_method "pad", the default up to pandas 2) or leaves it
\* missing (pandas 3): pad tells which.
RECURSIVE Filled(_, _, _, _)
Filled(window, t, j, pad) ==
    IF window[j][t] # NaN \/ ~pad \/ j = 1 THEN window[j][t]
    ELSE Filled(window, t, j - 1, pad)

\* is the return of row j (j >= 2) a number?
RetDefined(window, t, j, pad) ==
    Filled(window, t, j, pad) # NaN /\ Filled(window, t, j - 1, pad) # NaN

\* pct_change: the return of row j
Ret(window, t, j, pad) ==
    Frac(Filled(window, t, j, pad) - Filled(window, t, j - 1, pad),
         Filled(window, t, j - 1, pad))

\* .dropna() on the frame of returns keeps the rows that hold no NaN in any
\* column; the first row never has a return
KeptRows(window, pad) ==
    {j \in 2..Len(window) : \A t \in Columns(window) : RetDefined(window, t, j, pad)}

RECURSIVE RetSum(_, _, _, _)
RetSum(window, t, rows, pad) ==
    IF rows = {} THEN <<0, 1>>
    ELSE LET j == CHOOSE k \in rows : TRUE
         IN  FracAdd(Ret(window, t, j, pad), RetSum(window, t, rows \ {j}, pad))

\* returns_mom.mean(): defined when a row is left
MomentumDefined(window, pad) == KeptRows(window, pad) # {}
Momentum(window, t, pad) ==
    LET rows == KeptRows(window, pad)
        s == RetSum(window, t, rows, pad)
    IN  Frac(s[1], s[2] * Cardinality(rows))

\* returns_vol.std(), the sample standard deviation: defined when two rows
\* are left, and a window of LOOKBACK_VOL = 2 returns has no more.  Of two
\* returns a and b it is |a - b| / sqrt(2); Volatility is |a - b|.
VolatilityDefined(window, pad) == Cardinality(KeptRows(window, pad)) = 2
Volatility(window, t, pad) ==
    LET rows == KeptRows(window, pad)
        a == CHOOSE k \in rows : TRUE
        b == CHOOSE k \in rows : k # a
    IN  FracAbs(FracSub(Ret(window, t, a, pad), Ret(window, t, b, pad)))

\* valid = volatility[volatility > 0].index.intersection(momentum.index);
\* .dropna() of the quotient drops an undefined momentum
Valid(window_mom, window_vol, pad) ==
    {t \in Columns(window_mom) :
        /\ VolatilityDefined(window_vol, pad)
        /\ Volatility(window_vol, t, pad)[1] > 0
        /\ MomentumDefined(window_mom, pad)}

\* momentum / volatility, which is the source's raw score divided by
\* sqrt(2): the same sign, the same order and the same ratios
Score(window_mom, window_vol, t, pad) ==
    FracDiv(Momentum(window_mom, t, pad), Volatility(window_vol, t, pad))

\* sort_values(ascending=False): every order of S by descending score; the
\* default sort is not stable, so equal scores come in any order
RECURSIVE SortOrders(_, _)
SortOrders(S, score) ==
    IF S = {} THEN {<<>>}
    ELSE UNION {{<<t>> \o o : o \in SortOrders(S \ {t}, score)} :
                t \in {u \in S : \A v \in S : ~FracLess(score[u], score[v])}}

\* OverCap testing the slots already taken, not the slot to take
OverCap_late(slots) == slots * 100 > MAX_SECTOR_WEIGHT * TOP_N

\* would one more slot of 1 / TOP_N push the category above the cap?
\* category_weight[cat] is slots / TOP_N
OverCap(slots) == (slots + 1) * 100 > MAX_SECTOR_WEIGHT * TOP_N

RECURSIVE Select_no_limit(_, _, _, _)
\* Select without the break at TOP_N
Select_no_limit(order, i, selected, slots) ==
    IF i > Len(order) THEN selected
    ELSE LET ticker == order[i]
             cat == CategoryOf(ticker)
         IN  IF cat = "Unknown" THEN Select_no_limit(order, i + 1, selected, slots)
             ELSE IF OverCap(slots[cat]) THEN Select_no_limit(order, i + 1, selected, slots)
             ELSE Select_no_limit(order, i + 1, Append(selected, ticker),
                                  [slots EXCEPT ![cat] = @ + 1])

RECURSIVE Select_break_on_cap(_, _, _, _)
\* Select ending the scan at the first ticker the cap rejects
Select_break_on_cap(order, i, selected, slots) ==
    IF i > Len(order) \/ Len(selected) >= TOP_N THEN selected
    ELSE LET ticker == order[i]
             cat == CategoryOf(ticker)
         IN  IF cat = "Unknown" THEN Select_break_on_cap(order, i + 1, selected, slots)
             ELSE IF OverCap(slots[cat]) THEN selected
             ELSE Select_break_on_cap(order, i + 1, Append(selected, ticker),
                                      [slots EXCEPT ![cat] = @ + 1])

\* the greedy loop over score.index from position i on; selected is the
\* sequence of tickers taken, slots the number taken per category
RECURSIVE Select(_, _, _, _)
Select(order, i, selected, slots) ==
    IF i > Len(order) \/ Len(selected) >= TOP_N THEN selected
    ELSE LET ticker == order[i]
             cat == CategoryOf(ticker)
         IN  IF cat = "Unknown" THEN Select(order, i + 1, selected, slots)
             ELSE IF OverCap(slots[cat]) THEN Select(order, i + 1, selected, slots)
             ELSE Select(order, i + 1, Append(selected, ticker),
                         [slots EXCEPT ![cat] = @ + 1])

RECURSIVE FracSum(_, _)
FracSum(S, f) ==
    IF S = {} THEN <<0, 1>>
    ELSE LET t == CHOOSE u \in S : TRUE
         IN  FracAdd(f[t], FracSum(S \ {t}, f))

\* Weights without the division by total_score
Weights_raw(selected, score) ==
    LET S == {selected[k] : k \in 1..Len(selected)}
    IN  Tabulate(S, [t \in S |-> score[t]])

\* weights = {t: s / total_score}; no ticker selected gives {}
Weights(selected, score) ==
    LET S == {selected[k] : k \in 1..Len(selected)}
        total_score == FracSum(S, score)
    IN  Tabulate(S, [t \in S |-> FracDiv(score[t], total_score)])

\* rank_assets(date, prices_df) with loc the row of date: the allocations
\* the call can return, one for each order the sort can give
rank_assets(loc, prices_df, pad) ==
    IF loc - 1 < LOOKBACK_MOM THEN {<<>>}
    ELSE LET window_mom == SubSeq(prices_df, loc - LOOKBACK_MOM, loc)
             window_vol == SubSeq(prices_df, loc - LOOKBACK_VOL, loc)
             valid == Valid(window_mom, window_vol, pad)
             score == Tabulate(valid, [t \in valid |-> Score(window_mom, window_vol, t, pad)])
             positive == {t \in valid : score[t][1] > 0}
         IN  {Weights(Select(order, 1, <<>>, [c \in CATEGORY_LIST |-> 0]), score) :
                order \in SortOrders(positive, score)}

(***************************************************************************)
(* BACKTEST ENGINE                                                         *)
(*                                                                         *)
(* index holds the dates of the rows of the price table (prices.index), a  *)
(* date being a day number whose weekday is its remainder by 7 (0 Monday). *)
(* The loop reads the table one row per date and rank_assets reads no row  *)
(* after the date it ranks, so prices holds the rows up to the current     *)
(* date and the row of the next date comes in when the loop reaches it.    *)
(* commission_calls records every call of calc_commission the loop makes,  *)
(* opening the cash, the holdings and the commissions a date starts with.   *)
(***************************************************************************)
VARIABLES
    index,              \* prices.index: the date of every row of the table
    prices,             \* the rows of the table up to the current date
    pad,                \* does this build's pct_change pad missing prices?
    pc,                 \* "loop", "rebalance", "valuation", "done"; "input", "ranked", "called" in RankSpec and CommSpec
    portfolio_value,    \* in money units
    dates_track,
    holdings,           \* ticker -> [qty, entry_price]
    cash,               \* in money units
    total_commissions,  \* in money units
    target_weights,     \* what rank_assets returned last
    commission_calls,   \* the calls of calc_commission: row, site, ticker, trade value
    opening,            \* cash, holdings and total_commissions as the current date found them
    trade_value,        \* CommSpec: the argument of calc_commission
    comm                \* CommSpec: what calc_commission returned

vars ==
    <<index, prices, pad, pc, portfolio_value, dates_track, holdings, cash,
      total_commissions, target_weights, commission_calls, opening, trade_value,
      comm>>

\* the columns and the prices of the tables the backtest is run on
EngineTickers == {"TSLA", "JNJ"}
EngineRows == {[t \in EngineTickers |-> IF t = "TSLA" THEN a ELSE b] :
                 a \in {NaN, 93, 100}, b \in {80, 95, 100}}
HistoryRows == {[t \in EngineTickers |-> IF t = "TSLA" THEN 93 ELSE 95],
                [t \in EngineTickers |-> IF t = "TSLA" THEN NaN ELSE 100]}
\* from one row to the next: the next day, or the same weekday a week later
DateSteps == {1, 7}

\* prices = raw["Close"].dropna(axis=1, how="all"): no column is all NaN
Histories ==
    {h \in [1..LOOKBACK_MOM -> HistoryRows] :
        \A t \in EngineTickers : \E j \in 1..LOOKBACK_MOM : h[j][t] # NaN}

RECURSIVE Calendars(_)
\* the date sequences of n rows: days 1..LOOKBACK_MOM, then steps of DateSteps
Calendars(n) ==
    IF n = LOOKBACK_MOM THEN {[j \in 1..LOOKBACK_MOM |-> j]}
    ELSE {Append(c, c[n - 1] + s) : c \in Calendars(n - 1), s \in DateSteps}

dayofweek(date) == date % 7

\* the current row and its date
Loc == Len(prices)
Date == index[Loc]
current_prices == prices[Loc]

\* IsRebalanceDate taking every date for a rebalance date
IsRebalanceDate_every(date) == TRUE

\* date in rebalance_dates
IsRebalanceDate(date) == dayofweek(date) = REBALANCE_DAY

\* NonEmpty letting an empty allocation through
NonEmpty_always(tw) == TRUE

\* if target_weights: a dict is true when it has a key
NonEmpty(tw) == DOMAIN tw # {}

\* StopLossHit with ret < STOP_LOSS_PCT
StopLossHit_strict(entry_p, current_price) ==
    100 * (current_price - entry_p) < STOP_LOSS_PCT * entry_p

\* ret <= STOP_LOSS_PCT for ret = (current_price - entry_p) / entry_p
StopLossHit(entry_p, current_price) ==
    100 * (current_price - entry_p) <= STOP_LOSS_PCT * entry_p

\* StoppedOut stopping no position out
StoppedOut_none(h, row) == {}

\* the stop-loss check: the tickers of stopped_out
StoppedOut(h, row) ==
    {t \in DOMAIN h : row[t] # NaN /\ StopLossHit(h[t].entry_price, row[t])}

\* the rebalance sale: the tickers sold
Sold(h, row) == {t \in DOMAIN h : row[t] # NaN}

\* SaleProceeds crediting the sale value without the commission
SaleProceeds_gross(h, row, S) ==
    SumOver(S, [t \in S |-> h[t].qty * row[t] * UNITS_PER_DOLLAR])

\* cash += sell_value - comm, summed over the tickers of S
SaleProceeds(h, row, S) ==
    SumOver(S, [t \in S |-> h[t].qty * row[t] * UNITS_PER_DOLLAR
                              - calc_commission(h[t].qty * row[t])])

\* total_commissions += comm, summed over the tickers of S
SaleCommissions(h, row, S) ==
    SumOver(S, [t \in S |-> calc_commission(h[t].qty * row[t])])

\* qty = int(alloc // price) for alloc = total_equity * weight
Qty(total_equity, weight, price) ==
    LET m == MulDivMod(Abs(total_equity), weight[1], weight[2])
        alloc_floor == IF total_equity >= 0 THEN m[1]
                       ELSE -m[1] - (IF m[2] > 0 THEN 1 ELSE 0)
    IN  alloc_floor \div (price * UNITS_PER_DOLLAR)

\* Bought without the test qty > 0
Bought_any_qty(tw, row, total_equity) == {t \in DOMAIN tw : row[t] # NaN}

\* the tickers bought: priced, and qty > 0
Bought(tw, row, total_equity) ==
    {t \in DOMAIN tw : row[t] # NaN /\ Qty(total_equity, tw[t], row[t]) > 0}

\* cash -= cost + comm, summed over the tickers bought
BuyCost(tw, row, total_equity) ==
    LET B == Bought(tw, row, total_equity)
    IN  SumOver(B, [t \in B |->
            LET cost == Qty(total_equity, tw[t], row[t]) * row[t]
            IN  cost * UNITS_PER_DOLLAR + calc_commission(cost)])

\* BuyCommissions leaving the commissions of the purchases out of the total
BuyCommissions_none(tw, row, total_equity) == 0

\* total_commissions += comm, summed over the tickers bought
BuyCommissions(tw, row, total_equity) ==
    LET B == Bought(tw, row, total_equity)
    IN  SumOver(B, [t \in B |->
            calc_commission(Qty(total_equity, tw[t], row[t]) * row[t])])

\* NewHoldings keeping the entry price of a ticker that was held
NewHoldings_keep_entry(tw, row, total_equity) ==
    [t \in Bought(tw, row, total_equity) |->
        [qty |-> Qty(total_equity, tw[t], row[t]),
         entry_price |-> IF t \in DOMAIN holdings THEN holdings[t].entry_price
                         ELSE row[t]]]

\* holdings[ticker] = {"qty": qty, "entry_price": price}
NewHoldings(tw, row, total_equity) ==
    [t \in Bought(tw, row, total_equity) |->
        [qty |-> Qty(total_equity, tw[t], row[t]), entry_price |-> row[t]]]

\* HoldingsValue at the entry prices
HoldingsValue_at_entry(h, row) ==
    LET S == {t \in DOMAIN h : row[t] # NaN}
    IN  SumOver(S, [t \in S |-> h[t].qty * h[t].entry_price])

\* holdings_value of the valuation
HoldingsValue(h, row) ==
    LET S == {t \in DOMAIN h : row[t] # NaN}
    IN  SumOver(S, [t \in S |-> h[t].qty * row[t]])

Calls(site, S, value) ==
    {[row |-> Loc, site |-> site, ticker |-> t, trade_value |-> value[t]] : t \in S}

EngineInit ==
    /\ index \in UNION {Calendars(LOOKBACK_MOM + n) : n \in 1..MaxDays}
    /\ prices \in Histories
    /\ pad \in BOOLEAN
    /\ pc = "loop"
    /\ portfolio_value = <<INITIAL_CAPITAL * UNITS_PER_DOLLAR>>
    /\ dates_track = <<index[LOOKBACK_MOM + 1]>>
    /\ holdings = <<>>
    /\ cash = INITIAL_CAPITAL * UNITS_PER_DOLLAR
    /\ total_commissions = 0
    /\ target_weights = <<>>
    /\ commission_calls = {}
    /\ opening = [cash |-> cash, holdings |-> holdings,
                  total_commissions |-> total_commissions]
    /\ trade_value = 0
    /\ comm = 0

\* the loop takes the next date: the stop-loss check
StopLossPass ==
    /\ pc = "loop"
    /\ Len(prices) < Len(index)
    /\ \E row \in EngineRows :
        LET stopped_out == StoppedOut(holdings, row)
        IN  /\ prices' = Append(prices, row)
            /\ cash' = cash + SaleProceeds(holdings, row, stopped_out)
            /\ total_commissions' =
                   total_commissions + SaleCommissions(holdings, row, stopped_out)
            /\ holdings' = [t \in DOMAIN holdings \ stopped_out |-> holdings[t]]
            /\ commission_calls' = commission_calls \cup
                   {[row |-> Loc + 1, site |-> "stop", ticker |-> t,
                     trade_value |-> holdings[t].qty * row[t]] : t \in stopped_out}
    /\ opening' = [cash |-> cash, holdings |-> holdings,
                   total_commissions |-> total_commissions]
    /\ pc' = "rebalance"
    /\ UNCHANGED <<index, pad, portfolio_value, dates_track, target_weights,
                   trade_value, comm>>

\* a date that is no rebalance date
RebalanceSkip ==
    /\ pc = "rebalance"
    /\ ~IsRebalanceDate(Date)
    /\ pc' = "valuation"
    /\ UNCHANGED <<index, prices, pad, portfolio_value, dates_track, holdings,
                   cash, total_commissions, target_weights, commission_calls,
                   opening, trade_value, comm>>

\* a rebalance date: rank, and with a non-empty allocation sell everything
\* and buy the allocation
RebalancePass ==
    /\ pc = "rebalance"
    /\ IsRebalanceDate(Date)
    /\ \E tw \in rank_assets(Loc, prices, pad) :
        /\ target_weights' = tw
        /\ IF NonEmpty(tw)
           THEN LET row == current_prices
                    sold == Sold(holdings, row)
                    total_equity == cash + SaleProceeds(holdings, row, sold)
                    bought == Bought(tw, row, total_equity)
                IN  /\ cash' = total_equity - BuyCost(tw, row, total_equity)
                    /\ total_commissions' =
                           total_commissions + SaleCommissions(holdings, row, sold)
                             + BuyCommissions(tw, row, total_equity)
                    /\ holdings' = NewHoldings(tw, row, total_equity)
                    /\ commission_calls' = commission_calls
                          \cup Calls("sell", sold, [t \in sold |-> holdings[t].qty * row[t]])
                          \cup Calls("buy", bought,
                                 [t \in bought |-> Qty(total_equity, tw[t], row[t]) * row[t]])
           ELSE UNCHANGED <<cash, total_commissions, holdings, commission_calls>>
    /\ pc' = "valuation"
    /\ UNCHANGED <<index, prices, pad, portfolio_value, dates_track, opening,
                   trade_value, comm>>

\* the valuation of the date
Valuation ==
    /\ pc = "valuation"
    /\ portfolio_value' =
           Append(portfolio_value,
                  cash + HoldingsValue(holdings, current_prices) * UNITS_PER_DOLLAR)
    /\ dates_track' = Append(dates_track, Date)
    /\ pc' = "loop"
    /\ UNCHANGED <<index, prices, pad, holdings, cash, total_commissions,
                   target_weights, commission_calls, opening, trade_value, comm>>

\* the table is read: the loop ends
Finish ==
    /\ pc = "loop"
    /\ Len(prices) = Len(index)
    /\ pc' = "done"
    /\ UNCHANGED <<index, prices, pad, portfolio_value, dates_track, holdings,
                   cash, total_commissions, target_weights, commission_calls,
                   opening, trade_value, comm>>

Next == StopLossPass \/ RebalanceSkip \/ RebalancePass \/ Valuation \/ Finish

Spec == EngineInit /\ [][Next]_vars

(***************************************************************************)
(* rank_assets on its own: a table of LOOKBACK_MOM or LOOKBACK_MOM + 1     *)
(* rows over six columns, one of them a ticker of no category, ranked at   *)
(* its last row.                                                           *)
(***************************************************************************)
RankTickers == {"TSLA", "NVDA", "JNJ", "DBC", "VNQ", "ZZZZ"}

\* the price columns, oldest price first
PlainColumns == {<<93, 93, 93, 100>>, <<93, 100, 100, 93>>, <<100, 100, 100, 93>>}
GapColumns == {<<100, 100, 100, 100>>, <<NaN, 93, 93, 100>>, <<93, NaN, 93, 100>>}
ColumnsOf(t) == IF t = "DBC" THEN PlainColumns \cup GapColumns ELSE PlainColumns

\* the table of n rows whose columns are the last n prices of cols[t]
TableOf(cols, n) ==
    [j \in 1..n |-> [t \in DOMAIN cols |-> cols[t][LOOKBACK_MOM + 1 - n + j]]]

RankTables ==
    {TableOf(cols, n) :
        cols \in {c \in [RankTickers -> PlainColumns \cup GapColumns] :
                     \A t \in RankTickers : c[t] \in ColumnsOf(t)},
        n \in {LOOKBACK_MOM, LOOKBACK_MOM + 1}}

RankInit ==
    /\ prices \in RankTables
    /\ index = [j \in 1..Len(prices) |-> j]
    /\ pad \in BOOLEAN
    /\ pc = "input"
    /\ portfolio_value = <<>>
    /\ dates_track = <<>>
    /\ holdings = <<>>
    /\ cash = 0
    /\ total_commissions = 0
    /\ target_weights = <<>>
    /\ commission_calls = {}
    /\ opening = [cash |-> cash, holdings |-> holdings,
                  total_commissions |-> total_commissions]
    /\ trade_value = 0
    /\ comm = 0

Rank ==
    /\ pc = "input"
    /\ target_weights' \in rank_assets(Len(prices), prices, pad)
    /\ pc' = "ranked"
    /\ UNCHANGED <<index, prices, pad, portfolio_value, dates_track, holdings,
                   cash, total_commissions, commission_calls, opening, trade_value,
                   comm>>

RankNext == Rank

RankSpec == RankInit /\ [][RankNext]_vars

(***************************************************************************)
(* calc_commission on its own, on every whole-dollar trade value up to     *)
(* MaxTradeValue either side of zero.                                      *)
(***************************************************************************)
CommInit ==
    /\ trade_value \in -MaxTradeValue..MaxTradeValue
    /\ comm = 0
    /\ pc = "input"
    /\ index = <<>>
    /\ prices = <<>>
    /\ pad = FALSE
    /\ portfolio_value = <<>>
    /\ dates_track = <<>>
    /\ holdings = <<>>
    /\ cash = 0
    /\ total_commissions = 0
    /\ target_weights = <<>>
    /\ commission_calls = {}
    /\ opening = [cash |-> cash, holdings |-> holdings,
                  total_commissions |-> total_commissions]

Call ==
    /\ pc = "input"
    /\ comm' = calc_commission(trade_value)
    /\ pc' = "called"
    /\ UNCHANGED <<index, prices, pad, portfolio_value, dates_track, holdings,
                   cash, total_commissions, target_weights, commission_calls,
                   opening, trade_value>>

CommNext == Call

CommSpec == CommInit /\ [][CommNext]_vars

(***************************************************************************)
(* The claims                                                              *)
(***************************************************************************)
StrictlyIncreasing(seq) ==
    \A i \in 1..Len(seq) : \A j \in 1..Len(seq) : i < j => seq[i] < seq[j]

\* C1: after a full run the value series has one entry per simulated date:
\* its length, and that of its dates, is the table's length less
\* LOOKBACK_MOM, and its dates are strictly increasing.
C1_OneEntryPerDate ==
    pc = "done" =>
        /\ Len(portfolio_value) = Len(prices) - LOOKBACK_MOM
        /\ Len(dates_track) = Len(prices) - LOOKBACK_MOM
        /\ StrictlyIncreasing(dates_track)

\* |trade_value| * rate < min_commission, both sides in ten-thousandths of a dollar
BelowFloor(v) == Abs(v) * COMMISSION_RATE < MIN_COMMISSION * 10000
\* |trade_value| * max_rate_cap in money units
Ceiling(v) == (Abs(v) * MAX_COMMISSION_PCT * UNITS_PER_DOLLAR) \div 10000

\* C2 as stated: every trade value with |v| * rate < min_commission, zero
\* included, is charged exactly min_commission.
C2_FloorAlways ==
    (pc = "called" /\ BelowFloor(trade_value)) =>
        comm = MIN_COMMISSION * UNITS_PER_DOLLAR

\* C2 amended: a trade value with |v| * rate < min_commission is charged
\* min_commission when |v| * max_rate_cap is at least min_commission, and
\* |v| * max_rate_cap when it is less (nothing for a zero trade value).
C2_FloorUnderCeiling ==
    (pc = "called" /\ BelowFloor(trade_value)) =>
        IF Ceiling(trade_value) >= MIN_COMMISSION * UNITS_PER_DOLLAR
        THEN comm = MIN_COMMISSION * UNITS_PER_DOLLAR
        ELSE comm = Ceiling(trade_value)

\* a negative trade value charged the floor
C2_Witness ==
    /\ pc = "called"
    /\ BelowFloor(trade_value)
    /\ trade_value < 0
    /\ comm = MIN_COMMISSION * UNITS_PER_DOLLAR

\* C10: the commission of every trade value v is at most |v| * max_rate_cap.
C10_Ceiling == pc = "called" => comm <= Ceiling(trade_value)

\* a trade that is not zero, charged the cap, which is below the floor
C10_Witness ==
    /\ pc = "called"
    /\ trade_value # 0
    /\ comm = Ceiling(trade_value)
    /\ comm < MIN_COMMISSION * UNITS_PER_DOLLAR

\* C3: the cash balance is never negative.
C3_CashNeverNegative == cash >= 0

\* the row of the date a step of the loop works on, and the calls it makes
RowAfter == prices'[Len(prices')]
NewCalls == commission_calls' \ commission_calls
\* what the sale of position t of h at price p adds to the cash
SaleCredit(h, t, p) ==
    h[t].qty * p * UNITS_PER_DOLLAR - calc_commission(h[t].qty * p)

\* C4: a ticker leaves the holdings only by a sale at a defined price, which
\* credits the cash in the same step with quantity * price - commission; a
\* position whose price is undefined on a rebalance date stays as it is.
C4_DestroyedOnlyBySale ==
    [][LET gone == DOMAIN holdings \ DOMAIN holdings'
       IN  /\ \A t \in gone :
                 /\ RowAfter[t] # NaN
                 /\ \E c \in NewCalls :
                       /\ c.ticker = t
                       /\ c.site \in {"stop", "sell"}
                       /\ c.trade_value = holdings[t].qty * RowAfter[t]
           /\ (gone # {} /\ \A c \in NewCalls : c.site # "buy") =>
                 cash' - cash =
                     SumOver(gone, [t \in gone |-> SaleCredit(holdings, t, RowAfter[t])])
           /\ (pc = "rebalance" /\ IsRebalanceDate(Date)) =>
                 \A t \in DOMAIN holdings :
                     current_prices[t] = NaN =>
                         t \in DOMAIN holdings' /\ holdings'[t] = holdings[t]
      ]_vars

\* current price <= P * (1 + stop_loss_pct), both sides in hundredths
AtOrBelowStop(entry_p, current_price) ==
    100 * current_price <= entry_p * (100 + STOP_LOSS_PCT)

\* C5: the step that takes a date sells in full and removes every position
\* whose defined price is at or below entry price * (1 + stop_loss_pct); it
\* makes no call of the ranker and no rebalance sale or purchase, and the
\* rebalance pass starts with no such position left.
C5_StopLossBeforeRebalance ==
    [][(pc = "loop" /\ pc' = "rebalance") =>
          /\ \A t \in DOMAIN holdings :
                (RowAfter[t] # NaN /\ AtOrBelowStop(holdings[t].entry_price, RowAfter[t])) =>
                    /\ t \notin DOMAIN holdings'
                    /\ [row |-> Len(prices'), site |-> "stop", ticker |-> t,
                        trade_value |-> holdings[t].qty * RowAfter[t]] \in NewCalls
          /\ \A t \in DOMAIN holdings' :
                RowAfter[t] # NaN => ~AtOrBelowStop(holdings'[t].entry_price, RowAfter[t])
          /\ \A c \in NewCalls : c.site = "stop"
          /\ target_weights' = target_weights
      ]_vars

\* a rebalance date whose stop-loss check has sold a position at exactly
\* 93, 0.93 times the only entry price above it, 100
C5_Witness ==
    /\ pc = "rebalance"
    /\ IsRebalanceDate(Date)
    /\ \E c \in commission_calls :
          c.site = "stop" /\ c.row = Loc /\ current_prices[c.ticker] = 93

\* C6: the stop-loss step adds to the cash exactly quantity * price -
\* commission(quantity * price) for each position it sells, and on a date
\* that is no rebalance date nothing else changes the cash.
C6_StopLossCredit ==
    [][/\ (pc = "loop" /\ pc' = "rebalance") =>
             LET gone == DOMAIN holdings \ DOMAIN holdings'
             IN  cash' - cash =
                     SumOver(gone, [t \in gone |-> SaleCredit(holdings, t, RowAfter[t])])
       /\ (pc = "rebalance" /\ ~IsRebalanceDate(Date)) => cash' = cash
       /\ pc = "valuation" => cash' = cash
      ]_vars

\* the valuation of a date that is no rebalance date and has stopped a
\* position out
C6_Witness ==
    /\ pc = "valuation"
    /\ ~IsRebalanceDate(Date)
    /\ \E c \in commission_calls : c.site = "stop" /\ c.row = Loc

\* the trade value of a call, counted in for a sale and out for a purchase
Signed(c) == IF c.site = "buy" THEN -c.trade_value ELSE c.trade_value

\* C7: total_commissions is the sum of the commissions of all calls of
\* calc_commission so far, and cash + total_commissions has changed by the
\* gross trade values only.
C7_CommissionAccounting ==
    /\ total_commissions =
           SumOver(commission_calls,
                   [c \in commission_calls |-> calc_commission(c.trade_value)])
    /\ pc \in {"loop", "rebalance", "valuation", "done"} =>
           cash + total_commissions =
               (INITIAL_CAPITAL
                  + SumOver(commission_calls, [c \in commission_calls |-> Signed(c)]))
                 * UNITS_PER_DOLLAR

\* a finished run with a stop-loss sale, a rebalance sale and a purchase
C7_Witness ==
    /\ pc = "done"
    /\ \A site \in {"stop", "sell", "buy"} : \E c \in commission_calls : c.site = site

\* the windows, the valid tickers and the scores of a ranking at the last row
LastWindowMom == SubSeq(prices, Len(prices) - LOOKBACK_MOM, Len(prices))
LastWindowVol == SubSeq(prices, Len(prices) - LOOKBACK_VOL, Len(prices))
LastValid ==
    IF Len(prices) <= LOOKBACK_MOM THEN {} ELSE Valid(LastWindowMom, LastWindowVol, pad)
LastScore(t) == Score(LastWindowMom, LastWindowVol, t, pad)
SelectedIn(cat) == {t \in DOMAIN target_weights : CategoryOf(t) = cat}

\* C8: in every allocation rank_assets returns, the tickers of one category
\* divided by top_n are at most max_sector_weight.
C8_SectorCap ==
    pc = "ranked" =>
        \A cat \in CATEGORY_LIST \cup {"Unknown"} :
            Cardinality(SelectedIn(cat)) * 100 <= MAX_SECTOR_WEIGHT * TOP_N

\* NVDA has a positive score and is left out of an allocation of fewer than
\* TOP_N tickers that holds TSLA, of the same category
C8_Witness ==
    /\ pc = "ranked"
    /\ "TSLA" \in DOMAIN target_weights
    /\ "NVDA" \in LastValid \ DOMAIN target_weights
    /\ LastScore("NVDA")[1] > 0
    /\ Cardinality(DOMAIN target_weights) < TOP_N

\* C9: an allocation rank_assets returns has at most top_n tickers, none of
\* a score <= 0 and none of category Unknown.
C9_SelectionSize ==
    pc = "ranked" =>
        /\ Cardinality(DOMAIN target_weights) <= TOP_N
        /\ \A t \in DOMAIN target_weights :
              /\ t \in LastValid
              /\ LastScore(t)[1] > 0
              /\ CategoryOf(t) # "Unknown"

\* TOP_N tickers are selected; left out are a ticker of a category with no
\* ticker selected, the ticker of no category, both of positive score, and
\* a ticker whose score is not positive
C9_Witness ==
    /\ pc = "ranked"
    /\ Cardinality(DOMAIN target_weights) = TOP_N
    /\ \E t \in LastValid :
          /\ LastScore(t)[1] > 0
          /\ CategoryOf(t) # "Unknown"
          /\ SelectedIn(CategoryOf(t)) = {}
    /\ "ZZZZ" \in LastValid /\ LastScore("ZZZZ")[1] > 0
    /\ \E t \in LastValid : LastScore(t)[1] <= 0

\* C11: on a rebalance date on which the ranker returns an empty allocation
\* the rebalance pass leaves the holdings, the cash and total_commissions as
\* the stop-loss pass of the date left them, and trades nothing.
C11_EmptyAllocationFrame ==
    [][(/\ pc = "rebalance"
        /\ dayofweek(Date) = REBALANCE_DAY
        /\ DOMAIN target_weights' = {}) =>
          /\ holdings' = holdings
          /\ cash' = cash
          /\ total_commissions' = total_commissions
          /\ NewCalls = {}
      ]_vars

\* the valuation of a rebalance date whose ranking was empty, with a
\* position held
C11_Witness ==
    /\ pc = "valuation"
    /\ dayofweek(Date) = REBALANCE_DAY
    /\ DOMAIN target_weights = {}
    /\ DOMAIN holdings # {}

\* has ticker t a missing price on a row of the window?
HasGap(window, t) == \E j \in 1..Len(window) : window[j][t] = NaN

\* C12: a ticker with a missing price on a row of the momentum window or of
\* the volatility window is in no allocation rank_assets returns, and no
\* return row but the first of a window is dropped for the tickers that
\* have no gap in it.
C12_GapTickerExcluded ==
    (pc = "ranked" /\ Len(prices) > LOOKBACK_MOM) =>
        /\ \A t \in DOMAIN target_weights :
              ~HasGap(LastWindowMom, t) /\ ~HasGap(LastWindowVol, t)
        /\ (\E t \in Columns(prices) : ~HasGap(LastWindowMom, t)) =>
              KeptRows(LastWindowMom, pad) = 2..Len(LastWindowMom)
        /\ (\E t \in Columns(prices) : ~HasGap(LastWindowVol, t)) =>
              KeptRows(LastWindowVol, pad) = 2..Len(LastWindowVol)

\* C13: after a rebalance pass with a non-empty allocation every position
\* held has the price of the date for its entry price, a ticker that was
\* held before included.
C13_EntryPriceReset ==
    [][(/\ pc = "rebalance"
        /\ dayofweek(Date) = REBALANCE_DAY
        /\ DOMAIN target_weights' # {}) =>
          \A t \in DOMAIN holdings' : holdings'[t].entry_price = current_prices[t]
      ]_vars

\* a ticker bought on an earlier date at another price is sold and bought
\* again by the rebalance of this date
C13_Witness ==
    /\ pc = "valuation"
    /\ dayofweek(Date) = REBALANCE_DAY
    /\ DOMAIN target_weights # {}
    /\ \E t \in DOMAIN holdings :
          /\ \E c \in commission_calls : c.site = "sell" /\ c.row = Loc /\ c.ticker = t
          /\ \E c \in commission_calls :
                /\ c.site = "buy" /\ c.row < Loc /\ c.ticker = t
                /\ prices[c.row][t] # current_prices[t]

\* C14: in a non-empty allocation rank_assets returns every weight is
\* strictly positive, the weights sum to 1, and a weight is the score of
\* its ticker divided by the sum of the scores of the tickers selected.
C14_WeightsNormalized ==
    (pc = "ranked" /\ DOMAIN target_weights # {}) =>
        LET S == DOMAIN target_weights
            total == FracSum(S, [u \in S |-> LastScore(u)])
        IN  /\ \A t \in S : target_weights[t][1] > 0 /\ target_weights[t][2] > 0
            /\ FracSum(S, target_weights) = <<1, 1>>
            /\ \A t \in S : target_weights[t] = FracDiv(LastScore(t), total)

\* an allocation of two tickers or more whose weights are not all the same
C14_Witness ==
    /\ pc = "ranked"
    /\ \E t \in DOMAIN target_weights : \E u \in DOMAIN target_weights :
          target_weights[t] # target_weights[u]

C16_OpenedOnlyOnRebalanceDay ==
    [][LET date == index[Len(prices')]
       IN  /\ (\E t \in DOMAIN holdings' :
                  t \notin DOMAIN holdings \/ holdings'[t] # holdings[t]) =>
                 pc = "rebalance" /\ dayofweek(date) = REBALANCE_DAY
           /\ dayofweek(date) # REBALANCE_DAY =>
                 /\ target_weights' = target_weights
                 /\ \A c \in NewCalls : c.site = "stop"
                 /\ DOMAIN holdings' \subseteq DOMAIN holdings
                 /\ \A t \in DOMAIN holdings' : holdings'[t] = holdings[t]
      ]_vars

\* the valuation of a date that is no rebalance date, with a position held
\* and a ranking that would not have been empty
C16_Witness ==
    /\ pc = "valuation"
    /\ dayofweek(Date) # REBALANCE_DAY
    /\ DOMAIN holdings # {}
    /\ \E tw \in rank_assets(Loc, prices, pad) : DOMAIN tw # {}

\* C17: at the valuation of a date every position held whose price is
\* defined has (current price - entry price) / entry price > stop_loss_pct.
C17_NoStoppedPositionAtValuation ==
    pc = "valuation" =>
        \A t \in DOMAIN holdings :
            current_prices[t] # NaN =>
                100 * (current_prices[t] - holdings[t].entry_price)
                    > STOP_LOSS_PCT * holdings[t].entry_price

\* the date has stopped a position out and values another one below its
\* entry price
C17_Witness ==
    /\ pc = "valuation"
    /\ \E c \in commission_calls : c.site = "stop" /\ c.row = Loc
    /\ \E t \in DOMAIN holdings :
          current_prices[t] # NaN /\ current_prices[t] < holdings[t].entry_price

\* C18: on a date on which every position held at its start has a defined
\* price, the portfolio value recorded is the cash at the start plus
\* quantity * price of the date over the positions held at the start, less
\* the commissions charged on the date.
C18_ValueNeutral ==
    (/\ pc \in {"loop", "done"}
     /\ Len(prices) > LOOKBACK_MOM
     /\ \A t \in DOMAIN opening.holdings : current_prices[t] # NaN) =>
        LET h == opening.holdings
        IN  portfolio_value[Len(portfolio_value)] =
                opening.cash
                  + SumOver(DOMAIN h, [t \in DOMAIN h |-> h[t].qty * current_prices[t]])
                      * UNITS_PER_DOLLAR
                  - (total_commissions - opening.total_commissions)

\* a date valued after its rebalance has sold a position and bought one,
\* at a price that is not the price the position sold was bought at
C18_Witness ==
    /\ pc = "loop"
    /\ Len(prices) > LOOKBACK_MOM
    /\ \E t \in DOMAIN opening.holdings :
          current_prices[t] # opening.holdings[t].entry_price
    /\ \A t \in DOMAIN opening.holdings : current_prices[t] # NaN
    /\ \E c \in commission_calls : c.site = "sell" /\ c.row = Loc
    /\ \E c \in commission_calls : c.site = "buy" /\ c.row = Loc

\* the tickers of positive score and known category left out of the
\* allocation
Rejected ==
    {t \in LastValid \ DOMAIN target_weights :
        LastScore(t)[1] > 0 /\ CategoryOf(t) # "Unknown"}
\* the tickers selected in a category that score above u, and those that
\* score no lower than u
SelectedAbove(cat, u) ==
    {t \in SelectedIn(cat) : FracLess(LastScore(u), LastScore(t))}
SelectedNotBelow(cat, u) ==
    {t \in SelectedIn(cat) : ~FracLess(LastScore(t), LastScore(u))}
\* can the category of u take no slot more when it has taken the tickers of S?
CapReached(S) == (Cardinality(S) + 1) * 100 > MAX_SECTOR_WEIGHT * TOP_N

\* C19 as stated: when rank_assets returns fewer than top_n tickers, the
\* category of every unselected ticker of positive score and known category
\* cannot take one more slot; and when such a ticker scores above a selected
\* ticker, its category is at its cap among the selected tickers that score
\* higher than it.
C19_CapAmongHigherScored ==
    pc = "ranked" =>
        /\ Cardinality(DOMAIN target_weights) < TOP_N =>
              \A u \in Rejected : CapReached(SelectedIn(CategoryOf(u)))
        /\ \A u \in Rejected : \A s \in DOMAIN target_weights :
              FracLess(LastScore(s), LastScore(u)) =>
                  CapReached(SelectedAbove(CategoryOf(u), u))

\* C19 amended: the same, the category being at its cap among the selected
\* tickers that score no lower than the unselected one (a ticker of the
\* same score can come first in the scan and take the slot).
C19_GreedyMaximal ==
    pc = "ranked" =>
        /\ Cardinality(DOMAIN target_weights) < TOP_N =>
              \A u \in Rejected : CapReached(SelectedIn(CategoryOf(u)))
        /\ \A u \in Rejected : \A s \in DOMAIN target_weights :
              FracLess(LastScore(s), LastScore(u)) =>
                  CapReached(SelectedNotBelow(CategoryOf(u), u))

\* fewer than TOP_N tickers are selected, one of them scoring below a
\* ticker that the cap has rejected for a selected ticker of its own score
C19_Witness ==
    /\ pc = "ranked"
    /\ Cardinality(DOMAIN target_weights) < TOP_N
    /\ \E u \in Rejected :
          /\ \E s \in DOMAIN target_weights : FracLess(LastScore(s), LastScore(u))
          /\ \E t \in SelectedIn(CategoryOf(u)) : LastScore(t) = LastScore(u)

=============================================================================
